---- MODULE Spec2Model ----
(***************************************************************************)
(* Claude Task Manager (src/claude_manager.py): the alert classifier, the  *)
(* notification deduplicator and the interactive refresh loop.             *)
(*                                                                         *)
(* Python strings are TLA+ strings; the string primitives the program uses *)
(* (in, lower, strip, split, startswith, endswith, splitlines) are defined *)
(* character by character.  Optional[T] is a sequence: <<>> is None and    *)
(* <<v>> is the value v.                                                   *)
(***************************************************************************)
EXTENDS Integers, Sequences, FiniteSets, TLC

\* ------------------------------------------------------------------------
\* Python string primitives
\* ------------------------------------------------------------------------

None == <<>>

Some(v) == <<v>>

CharAt(s, i) == SubSeq(s, i, i)

\* s[i-1:] in Python terms: the suffix of s that starts at 1-based index i.
From(s, i) == SubSeq(s, i, Len(s))

\* str.startswith
StartsWith(s, p) == Len(p) <= Len(s) /\ SubSeq(s, 1, Len(p)) = p

\* str.endswith
EndsWith(s, p) == Len(p) <= Len(s) /\ SubSeq(s, Len(s) - Len(p) + 1, Len(s)) = p

\* `w in s` for strings: w is a contiguous substring of s.
Contains(s, w) ==
    \E i \in 1..(Len(s) - Len(w) + 1) : SubSeq(s, i, i + Len(w) - 1) = w

UpperChars == "ABCDEFGHIJKLMNOPQRSTUVWXYZ"

LowerChars == "abcdefghijklmnopqrstuvwxyz"

UpperSet == {CharAt(UpperChars, i) : i \in 1..Len(UpperChars)}

LowerChar(c) ==
    IF c \in UpperSet
    THEN CharAt(LowerChars, CHOOSE i \in 1..Len(UpperChars) : CharAt(UpperChars, i) = c)
    ELSE c

\* str.lower
RECURSIVE Lower(_)
Lower(s) == IF s = "" THEN "" ELSE LowerChar(CharAt(s, 1)) \o Lower(From(s, 2))

IsSpace(c) == c \in {" ", "\t", "\n", "\r"}

IsDigit(c) == c \in {"0", "1", "2", "3", "4", "5", "6", "7", "8", "9"}

\* str.isdigit for one character: the decimal digits and the characters
\* Unicode gives a digit value without making them decimal (superscripts).
isdigit(c) == IsDigit(c) \/ c \in {"²", "³", "¹"}

RECURSIVE LStrip(_)
LStrip(s) == IF s # "" /\ IsSpace(CharAt(s, 1)) THEN LStrip(From(s, 2)) ELSE s

RECURSIVE RStrip(_)
RStrip(s) ==
    IF s # "" /\ IsSpace(CharAt(s, Len(s))) THEN RStrip(SubSeq(s, 1, Len(s) - 1)) ELSE s

\* str.strip
Strip(s) == RStrip(LStrip(s))

\* s.split(sep)[0] for a one-character sep: s up to its first sep.
RECURSIVE SplitFirst(_, _)
SplitFirst(s, sep) ==
    IF s = "" \/ CharAt(s, 1) = sep THEN ""
    ELSE CharAt(s, 1) \o SplitFirst(From(s, 2), sep)

\* str.splitlines on "\n"-terminated text.
RECURSIVE SplitLines(_)
SplitLines(s) ==
    IF s = "" THEN <<>>
    ELSE LET l == SplitFirst(s, "\n")
         IN  <<l>> \o (IF Len(l) = Len(s) THEN <<>> ELSE SplitLines(From(s, Len(l) + 2)))

\* line.split(): the whitespace-separated fields of a line.
RECURSIVE Fields(_)
Fields(s) ==
    LET t == LStrip(s)
    IN  IF t = "" THEN <<>>
        ELSE LET w == CHOOSE n \in 1..Len(t) :
                         /\ \A i \in 1..n : ~IsSpace(CharAt(t, i))
                         /\ (n = Len(t) \/ IsSpace(CharAt(t, n + 1)))
             IN  <<SubSeq(t, 1, w)>> \o Fields(From(t, w + 1))

\* any(...) over a tuple of words
AnyWordIn(words, s) == \E i \in 1..Len(words) : Contains(s, words[i])

\* `s in words` for a tuple of words: equality with one of them
InTuple(s, words) == \E i \in 1..Len(words) : words[i] = s

\* ------------------------------------------------------------------------
\* datetime
\* ------------------------------------------------------------------------

\* A datetime is [year, month, day, hour, minute, second, micro].
DateTime(y, mo, d, h, mi, s, us) ==
    [year |-> y, month |-> mo, day |-> d, hour |-> h, minute |-> mi,
     second |-> s, micro |-> us]

IsLeap(y) == (y % 4 = 0) /\ ((y % 100 # 0) \/ (y % 400 = 0))

DaysInMonth(y, m) ==
    IF m = 2 THEN (IF IsLeap(y) THEN 29 ELSE 28)
    ELSE IF m \in {4, 6, 9, 11} THEN 30 ELSE 31

RECURSIVE DaysBeforeMonth(_, _)
DaysBeforeMonth(y, m) ==
    IF m = 1 THEN 0 ELSE DaysBeforeMonth(y, m - 1) + DaysInMonth(y, m - 1)

\* date.toordinal: days since 0001-01-01, that day being 1.
Ordinal(y, m, d) ==
    (y - 1) * 365 + ((y - 1) \div 4) - ((y - 1) \div 100) + ((y - 1) \div 400)
    + DaysBeforeMonth(y, m) + d

\* Whole seconds of a datetime since 2000-01-01 00:00:00.
Seconds(dt) ==
    (Ordinal(dt.year, dt.month, dt.day) - Ordinal(2000, 1, 1)) * 86400
    + dt.hour * 3600 + dt.minute * 60 + dt.second

\* datetime comparison a > b
After(a, b) ==
    \/ Seconds(a) > Seconds(b)
    \/ Seconds(a) = Seconds(b) /\ a.micro > b.micro

\* (a - b).total_seconds() as [whole, micro]: whole + micro / 10^6, with
\* whole the floor and 0 <= micro < 10^6.
TotalSeconds(a, b) ==
    IF a.micro >= b.micro
    THEN [whole |-> Seconds(a) - Seconds(b), micro |-> a.micro - b.micro]
    ELSE [whole |-> Seconds(a) - Seconds(b) - 1, micro |-> 1000000 + a.micro - b.micro]

\* Variant of AgeExceeds: age >= n, the comparison off by one.
AgeAtLeast(age, n) == age.whole >= n

\* age > n for a total_seconds value and an integer n
AgeExceeds(age, n) == age.whole > n \/ (age.whole = n /\ age.micro > 0)

\* ------------------------------------------------------------------------
\* Module constants and TaskState
\* ------------------------------------------------------------------------

COMPLETION_WORDS == <<"done", "complete", "finished">>

BLOCKED_WORDS ==
    <<"waiting for", "waiting on", "blocked", "needs review", "paused", "stuck">>

HOOK_ATTENTION_STATUSES ==
    <<"permissionrequest", "posttoolusefailure", "stop", "sessionend">>

\* TaskState(filepath=filepath): every other field at its default.
TaskState(filepath) ==
    [filepath |-> filepath, name |-> "?", status |-> "?", tmux_window |-> None,
     last_updated |-> None, progress_done |-> 0, progress_total |-> 0,
     is_stale |-> FALSE, is_blocked |-> FALSE, is_completed |-> FALSE,
     has_active_process |-> FALSE, tmux_window_exists |-> FALSE,
     alert_reasons |-> <<>>]

\* str(os.getpid()) of the monitor
own_pid == "77"

\* ------------------------------------------------------------------------
\* check_process_in_list, classify_alerts
\* ------------------------------------------------------------------------

\* Variant of check_process_in_list: the monitor's own line is not skipped.
ProcessInListOwnIncluded(filepath, ps_output) ==
    LET lines == SplitLines(ps_output)
    IN  \E i \in 1..Len(lines) :
            /\ Contains(Lower(lines[i]), "claude")
            /\ Contains(lines[i], filepath)

check_process_in_list(filepath, ps_output) ==
    LET lines == SplitLines(ps_output)
    IN  \E i \in 1..Len(lines) :
            LET parts == Fields(lines[i])
            IN  /\ parts # <<>>
                /\ parts[1] # own_pid
                /\ Contains(Lower(lines[i]), "claude")
                /\ Contains(lines[i], filepath)

\* Line 184: is_completed
IsCompleted(status_low) == AnyWordIn(COMPLETION_WORDS, status_low)

\* Variant of IsBlocked: the hook tokens matched as substrings, like the keywords.
IsBlockedHookSubstring(status_low) ==
    AnyWordIn(BLOCKED_WORDS, status_low) \/ AnyWordIn(HOOK_ATTENTION_STATUSES, status_low)

\* Lines 185-188: is_blocked
IsBlocked(status_low) ==
    AnyWordIn(BLOCKED_WORDS, status_low) \/ InTuple(status_low, HOOK_ATTENTION_STATUSES)

\* Lines 201-203: the timestamp is present and its age exceeds the threshold.
IsOverdue(last_updated, stale_minutes, now) ==
    last_updated # None /\ AgeExceeds(TotalSeconds(now, last_updated[1]), stale_minutes * 60)

\* Variant of AlertReasons: COMPLETED appended before the staleness check.
AlertReasonsCompletedEarly(status, blocked, has_proc, completed, last_updated, stale_minutes, now) ==
    (IF blocked THEN <<"NEEDS ATTENTION (status: " \o status \o ")">> ELSE <<>>)
    \o (IF ~has_proc /\ ~completed THEN <<"NOT RUNNING">> ELSE <<>>)
    \o (IF completed THEN <<"COMPLETED">> ELSE <<>>)
    \o (IF IsOverdue(last_updated, stale_minutes, now)
        THEN <<"STALE ("
               \o ToString(TotalSeconds(now, last_updated[1]).whole \div 60)
               \o "m since last update)">>
        ELSE <<>>)

\* Variant of AlertReasons: completion does not suppress NOT RUNNING.
AlertReasonsNoSuppression(status, blocked, has_proc, completed, last_updated, stale_minutes, now) ==
    (IF blocked THEN <<"NEEDS ATTENTION (status: " \o status \o ")">> ELSE <<>>)
    \o (IF ~has_proc THEN <<"NOT RUNNING">> ELSE <<>>)
    \o (IF IsOverdue(last_updated, stale_minutes, now)
        THEN <<"STALE ("
               \o ToString(TotalSeconds(now, last_updated[1]).whole \div 60)
               \o "m since last update)">>
        ELSE <<>>)
    \o (IF completed THEN <<"COMPLETED">> ELSE <<>>)

\* Lines 197-210: the alert_reasons list, in the order it is appended to.
AlertReasons(status, blocked, has_proc, completed, last_updated, stale_minutes, now) ==
    (IF blocked THEN <<"NEEDS ATTENTION (status: " \o status \o ")">> ELSE <<>>)
    \o (IF ~has_proc /\ ~completed THEN <<"NOT RUNNING">> ELSE <<>>)
    \o (IF IsOverdue(last_updated, stale_minutes, now)
        THEN <<"STALE ("
               \o ToString(TotalSeconds(now, last_updated[1]).whole \div 60)
               \o "m since last update)">>
        ELSE <<>>)
    \o (IF completed THEN <<"COMPLETED">> ELSE <<>>)

\* classify_alerts(task, stale_minutes, tmux_windows, ps_output), with the
\* value datetime.now() returns at line 202 as `now`: the task it leaves.
classify_alerts(task, stale_minutes, tmux_windows, ps_output, now) ==
    LET status_low == Lower(task.status)
        completed == IsCompleted(status_low)
        blocked == IsBlocked(status_low)
        window_exists ==
            IF task.tmux_window # None
            THEN \E i \in 1..Len(tmux_windows) :
                     EndsWith(tmux_windows[i], ":" \o task.tmux_window[1])
            ELSE task.tmux_window_exists
        has_proc == check_process_in_list(task.filepath, ps_output)
        stale ==
            IF task.last_updated # None
            THEN (IF IsOverdue(task.last_updated, stale_minutes, now)
                  THEN TRUE ELSE task.is_stale)
            ELSE (IF task.status # "?" THEN FALSE ELSE task.is_stale)
    IN  [task EXCEPT
            !.is_completed = completed,
            !.is_blocked = blocked,
            !.tmux_window_exists = window_exists,
            !.has_active_process = has_proc,
            !.is_stale = stale,
            !.alert_reasons =
                AlertReasons(task.status, blocked, has_proc, completed,
                             task.last_updated, stale_minutes, now)]

\* ------------------------------------------------------------------------
\* parse_timestamp
\* ------------------------------------------------------------------------

DigitChars == "0123456789"

DigitValue(c) == (CHOOSE i \in 1..10 : CharAt(DigitChars, i) = c) - 1

AllDigits(s) == \A i \in 1..Len(s) : IsDigit(CharAt(s, i))

\* int(s) for a string of decimal digits
RECURSIVE ParseInt(_)
ParseInt(s) ==
    IF s = "" THEN 0
    ELSE ParseInt(SubSeq(s, 1, Len(s) - 1)) * 10 + DigitValue(CharAt(s, Len(s)))

\* re.sub(r"(\d+)(?:st|nd|rd|th)", r"\1", s); after_digit: the previous
\* character is a digit of a match still open.
RECURSIVE SubOrdinals(_, _)
SubOrdinals(s, after_digit) ==
    IF s = "" THEN ""
    ELSE IF after_digit /\ Len(s) >= 2 /\ SubSeq(s, 1, 2) \in {"st", "nd", "rd", "th"}
    THEN SubOrdinals(From(s, 3), FALSE)
    ELSE CharAt(s, 1) \o SubOrdinals(From(s, 2), IsDigit(CharAt(s, 1)))

\* s.split(sep) for a one-character sep
RECURSIVE SplitOn(_, _)
SplitOn(s, sep) ==
    LET h == SplitFirst(s, sep)
    IN  IF Len(h) = Len(s) THEN <<s>> ELSE <<h>> \o SplitOn(From(s, Len(h) + 2), sep)

WeekdayNames ==
    <<"monday", "tuesday", "wednesday", "thursday", "friday", "saturday", "sunday">>

MonthNames ==
    <<"january", "february", "march", "april", "may", "june", "july", "august",
      "september", "october", "november", "december">>

\* One or two digits with a value in lo..hi: strptime's %d, %H, %M, %S.
NumberIn(s, lo, hi) ==
    Len(s) \in {1, 2} /\ AllDigits(s) /\ ParseInt(s) \in lo..hi

\* datetime.strptime(cleaned, fmt) for the two formats of line 54: with_year
\* is "%A %d %B %Y %H:%M:%S", otherwise "%A %d %B %H:%M:%S" (year 1900).
\* None stands for ValueError.
strptime(cleaned, with_year) ==
    LET f == Fields(cleaned)
        n == IF with_year THEN 5 ELSE 4
        hms == SplitOn(f[n], ":")
        year == IF with_year THEN ParseInt(f[4]) ELSE 1900
        month == CHOOSE m \in 1..12 : MonthNames[m] = Lower(f[3])
    IN  IF /\ Len(f) = n
           /\ InTuple(Lower(f[1]), WeekdayNames)
           /\ NumberIn(f[2], 1, 31)
           /\ InTuple(Lower(f[3]), MonthNames)
           /\ (with_year => Len(f[4]) = 4 /\ AllDigits(f[4]) /\ year >= 1)
           /\ Len(hms) = 3
           /\ NumberIn(hms[1], 0, 23)
           /\ NumberIn(hms[2], 0, 59)
           /\ NumberIn(hms[3], 0, 59)
           /\ ParseInt(f[2]) <= DaysInMonth(year, month)
        THEN Some(DateTime(year, month, ParseInt(f[2]), ParseInt(hms[1]),
                           ParseInt(hms[2]), ParseInt(hms[3]), 0))
        ELSE None

\* parse_timestamp without lines 64-65: the inferred year is never moved back.
ParseTimestampNoRollback(raw0, now) ==
    LET raw == Strip(raw0)
        cleaned == SubOrdinals(raw, FALSE)
        full == strptime(cleaned, TRUE)
        short == strptime(cleaned, FALSE)
    IN  IF raw = "" \/ StartsWith(raw, "[") \/ Len(raw) < 10 THEN None
        ELSE IF full # None THEN full
        ELSE IF short = None THEN None
        ELSE Some([short[1] EXCEPT !.year = now.year])

\* parse_timestamp(raw), with the value datetime.now() returns at line 63.
parse_timestamp(raw0, now) ==
    LET raw == Strip(raw0)
        cleaned == SubOrdinals(raw, FALSE)
        full == strptime(cleaned, TRUE)
        short == strptime(cleaned, FALSE)
        dt == [short[1] EXCEPT !.year = now.year]
    IN  IF raw = "" \/ StartsWith(raw, "[") \/ Len(raw) < 10 THEN None
        ELSE IF full # None THEN full
        ELSE IF short = None THEN None
        ELSE IF After(dt, now) THEN Some([dt EXCEPT !.year = now.year - 1])
        ELSE Some(dt)

\* ------------------------------------------------------------------------
\* parse_wiki_file
\* ------------------------------------------------------------------------

\* re.match(prefix + r"\s*(.+)", line)
MatchRest(line, prefix) == StartsWith(line, prefix) /\ Len(line) > Len(prefix)

\* m.group(1).strip() of that match
RestValue(line, prefix) == Strip(From(line, Len(prefix) + 1))

\* The longest prefix of s made of digits.
RECURSIVE LeadingDigits(_)
LeadingDigits(s) ==
    IF s # "" /\ IsDigit(CharAt(s, 1))
    THEN CharAt(s, 1) \o LeadingDigits(From(s, 2)) ELSE ""

\* re.match(prefix + r"\s*(\d+)", line)
MatchDigits(line, prefix) ==
    StartsWith(line, prefix) /\ LeadingDigits(LStrip(From(line, Len(prefix) + 1))) # ""

DigitsValue(line, prefix) == LeadingDigits(LStrip(From(line, Len(prefix) + 1)))

\* Index of the first line a for-loop breaks at, given which lines match:
\* 0 when none does.
FirstMatch(matches) ==
    IF \E i \in DOMAIN matches : matches[i]
    THEN CHOOSE i \in DOMAIN matches : matches[i] /\ \A j \in 1..(i - 1) : ~matches[j]
    ELSE 0

\* re.match(r"- \[[xXoO ]\]", line)
IsChecklistLine(line) ==
    /\ Len(line) >= 5
    /\ SubSeq(line, 1, 3) = "- ["
    /\ CharAt(line, 4) \in {"x", "X", "o", "O", " "}
    /\ CharAt(line, 5) = "]"

\* re.match(r"(- )?\[[xX]\]", line): the dash made optional for done lines only.
IsDoneLineOptionalDash(line) ==
    LET body == IF StartsWith(line, "- ") THEN From(line, 3) ELSE line
    IN  /\ Len(body) >= 3
        /\ CharAt(body, 1) = "["
        /\ CharAt(body, 2) \in {"x", "X"}
        /\ CharAt(body, 3) = "]"

\* re.match(r"- \[[xX]\]", line)
IsDoneLine(line) ==
    /\ Len(line) >= 5
    /\ SubSeq(line, 1, 3) = "- ["
    /\ CharAt(line, 4) \in {"x", "X"}
    /\ CharAt(line, 5) = "]"

\* A file on disk is Some(text), or None when read_text raises OSError.
parse_wiki_file(filepath, content, now) ==
    LET task == TaskState(filepath)
        lines == SplitLines(content[1])
        IsName(l) == MatchRest(l, "# Task Name:")
        IsStatus(l) == MatchRest(l, "**Status**:")
        IsWindow(l) == MatchDigits(l, "**Tmux Window**:")
        IsUpdated(l) == MatchRest(l, "**Last Updated Date/Time**:")
        iName == FirstMatch([i \in DOMAIN lines |-> IsName(lines[i])])
        iStatus == FirstMatch([i \in DOMAIN lines |-> IsStatus(lines[i])])
        iWindow == FirstMatch([i \in DOMAIN lines |-> IsWindow(lines[i])])
        iUpdated == FirstMatch([i \in DOMAIN lines |-> IsUpdated(lines[i])])
    IN  IF content = None THEN task
        ELSE [task EXCEPT
                !.name = IF iName = 0 THEN @ ELSE RestValue(lines[iName], "# Task Name:"),
                !.status =
                    IF iStatus = 0 THEN @ ELSE RestValue(lines[iStatus], "**Status**:"),
                !.tmux_window =
                    IF iWindow = 0 THEN @
                    ELSE Some(DigitsValue(lines[iWindow], "**Tmux Window**:")),
                !.last_updated =
                    IF iUpdated = 0 THEN @
                    ELSE parse_timestamp(
                             From(lines[iUpdated], Len("**Last Updated Date/Time**:") + 1),
                             now),
                !.progress_total =
                    Cardinality({i \in 1..Len(lines) : IsChecklistLine(lines[i])}),
                !.progress_done =
                    Cardinality({i \in 1..Len(lines) : IsDoneLine(lines[i])})]

\* ------------------------------------------------------------------------
\* The environment the program reads: the wip directory, the process
\* table, the tmux server, the wall clock
\* ------------------------------------------------------------------------

\* os.path.join(os.path.expanduser(args.wiki_path), "wip")
wip_dir == "/v/wip"

\* Characters of file names in code-point order: the order sorted() uses.
CodePoints == "./0123456789_abcdefghijklmnopqrstuvwxyz"

CodePoint(c) == CHOOSE i \in 1..Len(CodePoints) : CharAt(CodePoints, i) = c

\* a < b for Python strings
RECURSIVE StrLess(_, _)
StrLess(a, b) ==
    IF b = "" THEN FALSE
    ELSE IF a = "" THEN TRUE
    ELSE IF CharAt(a, 1) = CharAt(b, 1) THEN StrLess(From(a, 2), From(b, 2))
    ELSE CodePoint(CharAt(a, 1)) < CodePoint(CharAt(b, 1))

\* sorted(S) for a set of strings
RECURSIVE Sorted(_)
Sorted(S) ==
    IF S = {} THEN <<>>
    ELSE LET m == CHOOSE x \in S : \A y \in S \ {x} : StrLess(x, y)
         IN  <<m>> \o Sorted(S \ {m})

\* The instants datetime.now() returns, in time order.
Nows ==
    <<DateTime(2026, 3, 1, 11, 55, 0, 0),
      DateTime(2026, 3, 1, 12, 0, 0, 0),
      DateTime(2026, 3, 1, 12, 0, 0, 500000)>>

\* Texts of task files.
FileTexts ==
    <<"# Task Name: Alpha\n**Status**: blocked\n**Tmux Window**: 2\n- [x] a\n- [ ] b\n",
      "**Status**: Done (was NOT RUNNING)\n**Last Updated Date/Time**: Sunday 1st March 11:50:00\n",
      "# Task Name: Gamma\n**Status**: working (ATTENTION)\n**Tmux Window**: 1\n**Last Updated Date/Time**: Sunday 1 March 2026 11:50:00\n">>

\* What a directory entry can be: absent, a directory, an unreadable file,
\* or a file with one of the texts.
Entries ==
    {[kind |-> k, text |-> 0] : k \in {"absent", "dir", "unreadable"}}
    \cup {[kind |-> "text", text |-> i] : i \in 1..Len(FileTexts)}

EntryNames == {"a.wiki", "b.wiki", "notes.txt"}

\* The states of the wip directory: each name to what it is.
Listings ==
    {d \in [EntryNames -> Entries] :
        /\ d["notes.txt"] = [kind |-> "text", text |-> 1]
        /\ d["a.wiki"].kind # "dir"
        /\ d["b.wiki"].kind # "unreadable"}

\* Results of `ps axww -o pid,command`; "" is also what a failed call gives.
PsOutputs ==
    {"",
     "  PID COMMAND\n   77 python3 claude_manager.py /v/wip/b.wiki\n  101 node Claude /v/wip/a.wiki\n"}

\* Results of `tmux list-windows`; <<>> is also what a failed call gives.
TmuxLists == {<<>>, <<"dev:12", "a:b:2">>}

\* Keys the operator can type.
Keys == {"q", "r", "x", "1", "2", "²"}

\* --stale-minutes default
DefaultStaleMinutes == 10

\* ------------------------------------------------------------------------
\* scan_tasks
\* ------------------------------------------------------------------------

\* Content of a file entry as read_text sees it.
ContentOf(e) == IF e.kind = "text" THEN Some(FileTexts[e.text]) ELSE None

\* scan_tasks(wiki_path, stale_minutes) in the environment (is_dir, listing,
\* tmux_windows, ps_output, now).
scan_tasks(is_dir, listing, stale, tmux_windows, ps_output, now) ==
    LET names == Sorted({n \in EntryNames : listing[n].kind # "absent"})
        Keep(n) == EndsWith(n, ".wiki") /\ listing[n].kind \in {"unreadable", "text"}
        kept == SelectSeq(names, Keep)
    IN  IF ~is_dir THEN <<>>
        ELSE [i \in 1..Len(kept) |->
                 classify_alerts(
                     parse_wiki_file(wip_dir \o "/" \o kept[i], ContentOf(listing[kept[i]]), now),
                     stale, tmux_windows, ps_output, now)]

\* scan_tasks for every environment of the model.
ScanTable ==
    [listing \in Listings, tmux_windows \in TmuxLists, ps_output \in PsOutputs,
     n \in 1..Len(Nows) |->
        scan_tasks(TRUE, listing, DefaultStaleMinutes, tmux_windows, ps_output, Nows[n])]
    @@ <<>>

\* ------------------------------------------------------------------------
\* Notification reconciliation (main, lines 321-330)
\* ------------------------------------------------------------------------

\* r.split("(")[0].strip()
AlertKind(r) == Strip(SplitFirst(r, "("))

\* key = (t.filepath, r.split("(")[0].strip())
AlertKey(t, r) == <<t.filepath, AlertKind(r)>>

\* Variant of IsAttentionReason: STALE reasons pass the condition too.
IsAttentionOrStaleReason(r) ==
    Contains(r, "ATTENTION") \/ Contains(r, "NOT RUNNING") \/ Contains(r, "STALE")

\* The condition of line 327 on the reason text.
IsAttentionReason(r) == Contains(r, "ATTENTION") \/ Contains(r, "NOT RUNNING")

\* The (task, reason) pairs in the order the two for-loops visit them.
RECURSIVE ReasonPairs(_)
ReasonPairs(ts) ==
    IF ts = <<>> THEN <<>>
    ELSE [j \in 1..Len(Head(ts).alert_reasons) |-> <<Head(ts), Head(ts).alert_reasons[j]>>]
         \o ReasonPairs(Tail(ts))

\* Variant of NotifyLoop: the key is not added to the seen set (no line 329).
RECURSIVE NotifyLoopNoAdd(_, _)
NotifyLoopNoAdd(pairs, st) ==
    IF pairs = <<>> THEN st
    ELSE LET t == Head(pairs)[1]
             r == Head(pairs)[2]
             key == AlertKey(t, r)
             fire == key \notin st.notified /\ IsAttentionReason(r)
         IN  NotifyLoopNoAdd(Tail(pairs),
                 [notified |-> st.notified,
                  current |-> st.current \cup {key},
                  sent |-> IF fire
                           THEN Append(st.sent, [title |-> "Claude Task Manager",
                                                 subtitle |-> t.name, message |-> r,
                                                 key |-> key])
                           ELSE st.sent])

\* The loop body, lines 325-329, over the pairs; st = [notified, current, sent].
RECURSIVE NotifyLoop(_, _)
NotifyLoop(pairs, st) ==
    IF pairs = <<>> THEN st
    ELSE LET t == Head(pairs)[1]
             r == Head(pairs)[2]
             key == AlertKey(t, r)
             fire == key \notin st.notified /\ IsAttentionReason(r)
         IN  NotifyLoop(Tail(pairs),
                 [notified |-> IF fire THEN st.notified \cup {key} ELSE st.notified,
                  current |-> st.current \cup {key},
                  sent |-> IF fire
                           THEN Append(st.sent, [title |-> "Claude Task Manager",
                                                 subtitle |-> t.name, message |-> r,
                                                 key |-> key])
                           ELSE st.sent])

\* Variant of Reconcile: the seen set is emptied at the end of every cycle.
ReconcileDropsAll(ts, seen) ==
    LET st == NotifyLoop(ReasonPairs(ts), [notified |-> seen, current |-> {}, sent |-> <<>>])
    IN  [notified |-> {}, sent |-> st.sent]

\* Variant of Reconcile: no key is ever dropped from the seen set (no line 330).
ReconcileKeepsAll(ts, seen) ==
    LET st == NotifyLoop(ReasonPairs(ts), [notified |-> seen, current |-> {}, sent |-> <<>>])
    IN  [notified |-> st.notified, sent |-> st.sent]

\* Lines 322-330: the seen set and the notifications sent.
Reconcile(ts, seen) ==
    LET st == NotifyLoop(ReasonPairs(ts), [notified |-> seen, current |-> {}, sent |-> <<>>])
    IN  [notified |-> st.notified \cap st.current, sent |-> st.sent]

\* ------------------------------------------------------------------------
\* render_dashboard: the alerts section (lines 265-266)
\* ------------------------------------------------------------------------

RECURSIVE AlertsFrom(_, _)
AlertsFrom(ts, i) ==
    IF i > Len(ts) THEN <<>>
    ELSE LET Shown(r) == ~Contains(r, "COMPLETED")
             rs == SelectSeq(ts[i].alert_reasons, Shown)
         IN  [j \in 1..Len(rs) |-> [idx |-> i, name |-> ts[i].name, reason |-> rs[j]]]
             \o AlertsFrom(ts, i + 1)

render_alerts(ts) == AlertsFrom(ts, 1)

\* ------------------------------------------------------------------------
\* switch_tmux_window
\* ------------------------------------------------------------------------

\* The entry `tmux select-window -t` is run on: the first entry that ends
\* with ":<window>", None when there is none.
switch_tmux_window(window, windows) ==
    LET Hit(e) == EndsWith(e, ":" \o window)
        hits == SelectSeq(windows, Hit)
    IN  IF hits = <<>> THEN None ELSE Some(Head(hits))

\* ------------------------------------------------------------------------
\* main: the refresh loop
\* ------------------------------------------------------------------------

VARIABLES
    pc,                \* where main is: start, scan, notify, render, wait, finally,
                       \* exited, killed (and classify, classified: see ClassifySpec)
    in_tmux,           \* bool(os.environ.get("TMUX"))
    no_notifications,  \* args.no_notifications
    args_stale_minutes, \* args.stale_minutes
    tasks,             \* the list scan_tasks returned
    notified,          \* the seen set
    term,              \* the mode of the terminal
    old_settings,      \* termios.tcgetattr(sys.stdin) of line 315
    ch,                \* the key the current iteration has read, None when none
    exc,               \* an exception is propagating out of the try block
    clock,             \* index in Nows of the latest datetime.now()
    sent,              \* send_notification calls of the cycle in progress
    switched,          \* the select-window target of the key just handled, if any
    alerts_section,    \* the alerts section printed in the cycle in progress
    prev_attention,    \* attention-class alert keys of the latest finished cycle
    notified_before,   \* keys send_notification was called for in finished cycles
    isatty,            \* sys.stdin.isatty()
    input,             \* the arguments of the function applied (one-function specifications)
    output             \* what that function returned besides the task list

vars ==
    <<pc, in_tmux, no_notifications, args_stale_minutes, tasks, notified, term, old_settings,
      ch, exc, clock, sent, switched, alerts_section, prev_attention,
      notified_before, isatty, input,
                   output>>

\* The alert keys of a task list: what line 326 collects in current_alerts.
AlertKeys(ts) ==
    UNION {{AlertKey(ts[i], ts[i].alert_reasons[j]) : j \in DOMAIN ts[i].alert_reasons} :
              i \in DOMAIN ts}

\* The two kinds of alert that notify.
AttentionKinds == {"NEEDS ATTENTION", "NOT RUNNING"}

AttentionKeys(ts) == {k \in AlertKeys(ts) : k[2] \in AttentionKinds}

Init ==
    /\ pc = "start"
    /\ in_tmux \in BOOLEAN
    /\ no_notifications \in BOOLEAN
    /\ args_stale_minutes = DefaultStaleMinutes
    /\ tasks = <<>>
    /\ notified = {}
    /\ term = "cooked"
    /\ old_settings = None
    /\ ch = None
    /\ exc = FALSE
    /\ clock = 1
    /\ sent = <<>>
    /\ switched = None
    /\ alerts_section = <<>>
    /\ prev_attention = {}
    /\ notified_before = {}
    /\ isatty \in BOOLEAN
    /\ input = None
    /\ output = None

LoopPcs == {"scan", "notify", "render", "wait"}

\* Lines 310-312: no interactive terminal, sys.exit(1) before the loop.
StartNoTty ==
    /\ pc = "start"
    /\ ~isatty
    /\ pc' = "exited"
    /\ UNCHANGED <<in_tmux, no_notifications, args_stale_minutes, tasks, notified, term,
                   old_settings, ch, exc, clock, sent, switched, alerts_section,
                   prev_attention, notified_before, isatty, input,
                   output>>

\* Variant of StartLoop: no check of the terminal (no lines 310-312).
StartLoopUnchecked ==
    /\ pc = "start"
    /\ notified' = {}
    /\ old_settings' = Some(term)
    /\ term' = "cbreak"
    /\ pc' = "scan"
    /\ UNCHANGED <<in_tmux, no_notifications, args_stale_minutes, tasks, ch, exc, clock, sent,
                   switched, alerts_section, prev_attention, notified_before, isatty, input,
                   output>>

\* Lines 314-317: the seen set, tcgetattr, setcbreak.
StartLoop ==
    /\ pc = "start"
    /\ isatty
    /\ notified' = {}
    /\ old_settings' = Some(term)
    /\ term' = "cbreak"
    /\ pc' = "scan"
    /\ UNCHANGED <<in_tmux, no_notifications, args_stale_minutes, tasks, ch, exc, clock, sent,
                   switched, alerts_section,
                   prev_attention, notified_before, isatty, input,
                   output>>

\* Line 319 when wip is a directory: both probes, then every file parsed and
\* classified, at an instant not before the previous one.
Scan ==
    /\ pc = "scan"
    /\ switched' = None
    /\ ch' = None
    /\ pc' = "notify"
    /\ \E listing \in Listings, tmux_windows \in TmuxLists, ps_output \in PsOutputs,
          n \in clock..Len(Nows) :
          /\ tasks' = ScanTable[listing, tmux_windows, ps_output, n]
          /\ clock' = n
    /\ UNCHANGED <<in_tmux, no_notifications, args_stale_minutes, notified, term, old_settings,
                   exc, sent, alerts_section, prev_attention, notified_before, isatty, input,
                   output>>

\* Line 319 when wip is not a directory (lines 282-283): no task, no probe.
ScanNoDir ==
    /\ pc = "scan"
    /\ tasks' = scan_tasks(FALSE, CHOOSE l \in Listings : TRUE, args_stale_minutes, <<>>, "",
                           Nows[clock])
    /\ switched' = None
    /\ ch' = None
    /\ pc' = "notify"
    /\ UNCHANGED <<in_tmux, no_notifications, args_stale_minutes, notified, term, old_settings,
                   exc, clock, sent, alerts_section, prev_attention, notified_before, isatty, input,
                   output>>

\* Line 286: os.listdir raises OSError (the directory went away or cannot be
\* read); nothing in main catches it, so it leaves through the finally block.
ScanRaises ==
    /\ pc = "scan"
    /\ exc' = TRUE
    /\ ch' = None
    /\ pc' = "finally"
    /\ UNCHANGED <<in_tmux, no_notifications, args_stale_minutes, tasks, notified, term,
                   old_settings, clock, sent, switched, alerts_section,
                   prev_attention, notified_before, isatty, input,
                   output>>

\* Lines 321-330.
Notify ==
    /\ pc = "notify"
    /\ IF no_notifications
       THEN UNCHANGED <<notified, sent>>
       ELSE /\ notified' = Reconcile(tasks, notified).notified
            /\ sent' = Reconcile(tasks, notified).sent
    /\ pc' = "render"
    /\ UNCHANGED <<in_tmux, no_notifications, args_stale_minutes, tasks, term, old_settings, ch,
                   exc, clock, switched, alerts_section,
                   prev_attention, notified_before, isatty, input,
                   output>>

\* Line 331.
Render ==
    /\ pc = "render"
    /\ alerts_section' = render_alerts(tasks)
    /\ pc' = "wait"
    /\ UNCHANGED <<in_tmux, no_notifications, args_stale_minutes, tasks, notified, term,
                   old_settings, ch, exc, clock, sent, switched, prev_attention, notified_before, isatty, input,
                   output>>

\* The loop body ends and line 319 is next: the cycle's logs are closed and
\* its attention-class alert keys become those of the previous cycle.
EndCycle ==
    /\ prev_attention' = AttentionKeys(tasks)
    /\ notified_before' = notified_before \cup {sent[i].key : i \in DOMAIN sent}
    /\ sent' = <<>>
    /\ alerts_section' = <<>>

\* Lines 332-333: select returns nothing ready after args.interval seconds.
Timeout ==
    /\ pc = "wait"
    /\ ch' = None
    /\ pc' = "scan"
    /\ EndCycle
    /\ UNCHANGED <<in_tmux, no_notifications, args_stale_minutes, tasks, notified, term,
                   old_settings, exc, clock, switched, isatty, input, output>>

\* Variant of KeyQuit: "q" is handled like any other key and the loop goes on.
KeyQuitGoesOn ==
    /\ pc = "wait"
    /\ ch' = Some("q")
    /\ pc' = "scan"
    /\ UNCHANGED <<in_tmux, no_notifications, args_stale_minutes, tasks, notified, term,
                   old_settings, exc, clock, sent, switched, alerts_section,
                   prev_attention, notified_before, isatty, input,
                   output>>

\* Lines 334-336: "q" breaks out of the loop.
KeyQuit ==
    /\ pc = "wait"
    /\ ch' = Some("q")
    /\ pc' = "finally"
    /\ UNCHANGED <<in_tmux, no_notifications, args_stale_minutes, tasks, notified, term,
                   old_settings, exc, clock, sent, switched, alerts_section,
                   prev_attention, notified_before, isatty, input,
                   output>>

\* int(ch) of line 340 for one character: None when it raises ValueError,
\* which it does for a character that is a digit without being decimal.
int(c) == IF IsDigit(c) THEN Some(ParseInt(c)) ELSE None

\* The task a digit key selects (lines 340-341), 0 when the digit selects none.
SwitchTarget(k, ts) ==
    LET idx == ParseInt(k) - 1
    IN  IF 0 <= idx /\ idx < Len(ts) /\ ts[idx + 1].tmux_window \notin {None, Some("")}
        THEN idx + 1 ELSE 0

\* Lines 337-343: every key but "q"; the loop body ends and line 319 is next.
KeyOther ==
    /\ pc = "wait"
    /\ \E k \in Keys \ {"q"} :
          /\ ~(k # "r" /\ isdigit(k) /\ in_tmux /\ int(k) = None)
          /\ ch' = Some(k)
          /\ IF k # "r" /\ isdigit(k) /\ in_tmux /\ SwitchTarget(k, tasks) # 0
             THEN \E windows \in TmuxLists :
                      switched' =
                          switch_tmux_window(tasks[SwitchTarget(k, tasks)].tmux_window[1],
                                             windows)
             ELSE switched' = None
    /\ pc' = "scan"
    /\ EndCycle
    /\ UNCHANGED <<in_tmux, no_notifications, args_stale_minutes, tasks, notified, term,
                   old_settings, exc, clock, isatty, input, output>>

\* Lines 339-340: inside tmux, a key that str.isdigit accepts and int rejects;
\* the ValueError is not caught and leaves through the finally block.
KeyDigitRaises ==
    /\ pc = "wait"
    /\ in_tmux
    /\ \E k \in Keys \ {"q", "r"} :
          /\ isdigit(k)
          /\ int(k) = None
          /\ ch' = Some(k)
    /\ exc' = TRUE
    /\ pc' = "finally"
    /\ UNCHANGED <<in_tmux, no_notifications, args_stale_minutes, tasks, notified, term,
                   old_settings, clock, sent, switched, alerts_section, prev_attention,
                   notified_before, isatty, input, output>>

\* Line 344: Ctrl-C anywhere in the loop raises KeyboardInterrupt, which the
\* except clause swallows.
Interrupt ==
    /\ pc \in LoopPcs
    /\ pc' = "finally"
    /\ UNCHANGED <<in_tmux, no_notifications, args_stale_minutes, tasks, notified, term,
                   old_settings, ch, exc, clock, sent, switched, alerts_section,
                   prev_attention, notified_before, isatty, input,
                   output>>

\* Lines 346-351: tcsetattr restores the saved settings; the farewell.
Finally ==
    /\ pc = "finally"
    /\ term' = old_settings[1]
    /\ pc' = "exited"
    /\ UNCHANGED <<in_tmux, no_notifications, args_stale_minutes, tasks, notified, old_settings,
                   ch, exc, clock, sent, switched, alerts_section, prev_attention,
      notified_before, isatty, input,
                   output>>

\* Lines 349-350: tcsetattr raises and the exception is swallowed.
FinallyRestoreFails ==
    /\ pc = "finally"
    /\ pc' = "exited"
    /\ UNCHANGED <<in_tmux, no_notifications, args_stale_minutes, tasks, notified, term,
                   old_settings, ch, exc, clock, sent, switched, alerts_section,
                   prev_attention, notified_before, isatty, input,
                   output>>

\* main installs no signal handler: SIGTERM (or SIGHUP, SIGKILL) ends the
\* process at once, and neither the except clause nor the finally block runs.
Terminated ==
    /\ pc \in LoopPcs \cup {"finally"}
    /\ pc' = "killed"
    /\ UNCHANGED <<in_tmux, no_notifications, args_stale_minutes, tasks, notified, term,
                   old_settings, ch, exc, clock, sent, switched, alerts_section,
                   prev_attention, notified_before, isatty, input,
                   output>>

Next ==
    \/ StartNoTty
    \/ StartLoop
    \/ Scan
    \/ ScanNoDir
    \/ ScanRaises
    \/ Notify
    \/ Render
    \/ Timeout
    \/ KeyQuit
    \/ KeyOther
    \/ KeyDigitRaises
    \/ Interrupt
    \/ Finally
    \/ FinallyRestoreFails
    \/ Terminated

Spec == Init /\ [][Next]_vars

\* ------------------------------------------------------------------------
\* classify_alerts on its own: one parsed record, classified once
\* ------------------------------------------------------------------------

\* Status texts a task file can carry.
ClassifyStatuses ==
    {"blocked", "Blocked on review", "waiting for input", "Waiting On Bob", "needs review",
     "PAUSED", "stuck", "stop", "Stop", "stopped", "non-stop", "PermissionRequest",
     "sessionend", "posttoolusefailure", "done", "Done (merged)", "complete", "incomplete",
     "finished", "abandoned", "In Progress", "working (ATTENTION)", "NOT RUNNING",
     "blocked, done", "STALE (5m", "COMPLETED", "Blocked: COMPLETED step 2", "?", ""}

\* Values of the Last Updated line; "" stands for a file without the line.
ClassifyStamps ==
    {"", "[unparsed]", "Sunday 1st March 11:50:00", "Sunday 1 March 2026 11:50:00",
     "Saturday 28th February 2026 12:00:00", "Monday 2nd March 2026 09:00:00"}

\* Values of --stale-minutes.
StaleChoices == {0, DefaultStaleMinutes}

TaskText(status, stamp) ==
    "# Task Name: T\n**Status**: " \o status \o "\n**Tmux Window**: 2\n"
    \o (IF stamp = "" THEN "" ELSE "**Last Updated Date/Time**: " \o stamp \o "\n")

ClassifyContents ==
    {None} \cup {Some(TaskText(s, st)) : s \in ClassifyStatuses, st \in ClassifyStamps}

\* Process snapshots for /v/wip/a.wiki: those of PsOutputs, one in which only
\* the monitor's own line names the file, one without the agent, one whose
\* agent line names the file as part of a longer path.
ClassifyPsOutputs ==
    PsOutputs \cup
        {"   77 python3 claude_manager.py /v/wip/a.wiki\n",
         "  101 vim /v/wip/a.wiki\n  102 claude /v/wip/c.wiki\n",
         "\n  103 CLAUDE --task /v/wip/a.wiki.bak\n"}

\* The state between lines 292 and 293: one file has been parsed.
ClassifyInit ==
    /\ pc = "classify"
    /\ clock \in 1..Len(Nows)
    /\ args_stale_minutes \in StaleChoices
    /\ tasks \in {<<parse_wiki_file(wip_dir \o "/a.wiki", c, Nows[clock])>> :
                     c \in ClassifyContents}
    /\ in_tmux = FALSE
    /\ no_notifications = FALSE
    /\ notified = {}
    /\ term = "cbreak"
    /\ old_settings = Some("cooked")
    /\ ch = None
    /\ exc = FALSE
    /\ sent = <<>>
    /\ switched = None
    /\ alerts_section = <<>>
    /\ prev_attention = {}
    /\ notified_before = {}
    /\ isatty = TRUE
    /\ input = None
    /\ output = None

\* Line 293 on that record, under any pair of probe results.
Classify ==
    /\ pc = "classify"
    /\ \E tmux_windows \in TmuxLists, ps_output \in ClassifyPsOutputs :
          /\ tasks' = <<classify_alerts(tasks[1], args_stale_minutes, tmux_windows,
                                        ps_output, Nows[clock])>>
          /\ input' = Some([tmux_windows |-> tmux_windows, ps_output |-> ps_output])
    /\ pc' = "classified"
    /\ UNCHANGED <<in_tmux, no_notifications, args_stale_minutes, notified, term,
                   old_settings, ch, exc, clock, sent, switched, alerts_section,
                   prev_attention, notified_before, isatty, output>>

\* Line 331 on the classified record: the alerts section of the dashboard.
RenderClassified ==
    /\ pc = "classified"
    /\ alerts_section' = render_alerts(tasks)
    /\ pc' = "rendered"
    /\ UNCHANGED <<in_tmux, no_notifications, args_stale_minutes, tasks, notified, term,
                   old_settings, ch, exc, clock, sent, switched, prev_attention,
                   notified_before, isatty, input, output>>

ClassifyNext ==
    \/ Classify
    \/ RenderClassified

ClassifySpec == ClassifyInit /\ [][ClassifyNext]_vars

\* ------------------------------------------------------------------------
\* parse_wiki_file and parse_timestamp on their own: one file text or one
\* timestamp, parsed once
\* ------------------------------------------------------------------------

\* Lines a task file can hold around its checklist.
ParseLines ==
    {"- [x] a", "- [X] b", "- [ ] c", "- [o] d", "- [O] e", "[x] f", "[ ] g", "-[x] h",
     "  - [x] i", "- [y] j", "- [x", "notes"}

\* "\n".join(lines) with a final newline
RECURSIVE JoinLines(_)
JoinLines(lines) ==
    IF lines = <<>> THEN "" ELSE lines[1] \o "\n" \o JoinLines(Tail(lines))

\* The line lists of the files parsed: up to two lines.
ParseLineLists ==
    {<<>>} \cup {<<a>> : a \in ParseLines} \cup {<<a, b>> : a \in ParseLines, b \in ParseLines}

\* How a day of the month is written, with its value.
ParseDays ==
    {[text |-> "1st", value |-> 1], [text |-> "1", value |-> 1],
     [text |-> "2nd", value |-> 2], [text |-> "14th", value |-> 14],
     [text |-> "29th", value |-> 29], [text |-> "31st", value |-> 31],
     [text |-> "32nd", value |-> 32]}

ParseMonths ==
    {[text |-> "January", value |-> 1], [text |-> "February", value |-> 2],
     [text |-> "march", value |-> 3], [text |-> "December", value |-> 12]}

\* The year as written: 0 stands for a timestamp without a year.
ParseYears ==
    {[text |-> "", value |-> 0], [text |-> " 2024", value |-> 2024],
     [text |-> " 2026", value |-> 2026], [text |-> " 2027", value |-> 2027]}

ParseTimes ==
    {[text |-> "00:00:00", hour |-> 0, minute |-> 0, second |-> 0],
     [text |-> "12:00:00", hour |-> 12, minute |-> 0, second |-> 0],
     [text |-> "23:59:59", hour |-> 23, minute |-> 59, second |-> 59]}

\* Values of datetime.now() at line 63.
ParseNows ==
    {DateTime(2026, 3, 1, 12, 0, 0, 0), DateTime(2026, 3, 1, 12, 0, 0, 500000),
     DateTime(2026, 1, 1, 0, 0, 0, 0), DateTime(2024, 12, 31, 23, 59, 59, 999999)}

\* The text of a timestamp line's value, as a task file carries it.
StampText(day, month, year, time) ==
    " Sunday " \o day.text \o " " \o month.text \o year.text \o " " \o time.text

\* Nothing has been parsed yet.
ParseInit ==
    /\ pc = "parse"
    /\ clock = 1
    /\ args_stale_minutes = DefaultStaleMinutes
    /\ tasks = <<>>
    /\ in_tmux = FALSE
    /\ no_notifications = FALSE
    /\ notified = {}
    /\ term = "cbreak"
    /\ old_settings = Some("cooked")
    /\ ch = None
    /\ exc = FALSE
    /\ sent = <<>>
    /\ switched = None
    /\ alerts_section = <<>>
    /\ prev_attention = {}
    /\ notified_before = {}
    /\ isatty = TRUE
    /\ input = None
    /\ output = None

\* Line 292 on a readable file holding the lines drawn.
ParseFile ==
    /\ pc = "parse"
    /\ \E lines \in ParseLineLists, n \in 1..Len(Nows) :
          /\ input' = Some([lines |-> lines])
          /\ tasks' = <<parse_wiki_file(wip_dir \o "/a.wiki", Some(JoinLines(lines)), Nows[n])>>
          /\ clock' = n
    /\ pc' = "parsed"
    /\ UNCHANGED <<in_tmux, no_notifications, args_stale_minutes, notified, term,
                   old_settings, ch, exc, sent, switched, alerts_section,
                   prev_attention, notified_before, isatty, output>>

\* Line 292 on a file read_text cannot read.
ParseUnreadable ==
    /\ pc = "parse"
    /\ tasks' = <<parse_wiki_file(wip_dir \o "/a.wiki", None, Nows[clock])>>
    /\ pc' = "unreadable"
    /\ UNCHANGED <<in_tmux, no_notifications, args_stale_minutes, notified, term,
                   old_settings, ch, exc, clock, sent, switched, alerts_section,
                   prev_attention, notified_before, isatty, input, output>>

\* Line 95 on the value of a timestamp line.
ParseStamp ==
    /\ pc = "parse"
    /\ \E day \in ParseDays, month \in ParseMonths, year \in ParseYears, time \in ParseTimes, now \in ParseNows :
          /\ input' = Some([day |-> day.value, month |-> month.value, year |-> year.value,
                            hour |-> time.hour, minute |-> time.minute,
                            second |-> time.second, now |-> now])
          /\ output' = parse_timestamp(StampText(day, month, year, time), now)
    /\ pc' = "stamped"
    /\ UNCHANGED <<in_tmux, no_notifications, args_stale_minutes, tasks, notified, term,
                   old_settings, ch, exc, clock, sent, switched, alerts_section,
                   prev_attention, notified_before, isatty>>

ParseNext ==
    \/ ParseFile
    \/ ParseUnreadable
    \/ ParseStamp

ParseSpec == ParseInit /\ [][ParseNext]_vars

\* ------------------------------------------------------------------------
\* scan_tasks step by step: the directory test, the two probes, the loop
\* over the directory's entries
\* ------------------------------------------------------------------------

\* sorted(os.listdir(wip_dir))
DirNames(listing) == Sorted({n \in EntryNames : listing[n].kind # "absent"})

\* Variant of ScanLoopNext: the loop goes back to the probes before each file.
ScanLoopProbesAgain(k, total) == IF k < total THEN "get_tmux_windows" ELSE "scan_return"

\* Where the for-loop of line 286 goes after k of its total entries: to the
\* next entry, or to the return of line 295.
ScanLoopNext(k, total) == IF k < total THEN "scan_files" ELSE "scan_return"

\* scan_tasks is entered: tasks is empty, no probe has run.  k counts the
\* directory entries the loop has gone through.
ScanInit ==
    /\ pc = "scan_isdir"
    /\ clock \in 1..Len(Nows)
    /\ args_stale_minutes = DefaultStaleMinutes
    /\ tasks = <<>>
    /\ in_tmux = FALSE
    /\ no_notifications = FALSE
    /\ notified = {}
    /\ term = "cbreak"
    /\ old_settings = Some("cooked")
    /\ ch = None
    /\ exc = FALSE
    /\ sent = <<>>
    /\ switched = None
    /\ alerts_section = <<>>
    /\ prev_attention = {}
    /\ notified_before = {}
    /\ isatty = TRUE
    /\ input \in {Some([is_dir |-> d, listing |-> l, k |-> 0]) : d \in BOOLEAN, l \in Listings}
    /\ output = Some([tmux_windows |-> <<>>, ps_output |-> "", tmux_calls |-> 0, ps_calls |-> 0])

\* Lines 282-283.
ScanIsDir ==
    /\ pc = "scan_isdir"
    /\ pc' = IF input[1].is_dir THEN "get_tmux_windows" ELSE "scan_return"
    /\ UNCHANGED <<in_tmux, no_notifications, args_stale_minutes, tasks, notified, term,
                   old_settings, ch, exc, clock, sent, switched, alerts_section,
                   prev_attention, notified_before, isatty, input, output>>

\* Line 284: the session list, whatever tmux answers at this moment.
ScanGetTmuxWindows ==
    /\ pc = "get_tmux_windows"
    /\ \E w \in TmuxLists :
          output' = Some([output[1] EXCEPT !.tmux_windows = w, !.tmux_calls = @ + 1])
    /\ pc' = "get_process_list"
    /\ UNCHANGED <<in_tmux, no_notifications, args_stale_minutes, tasks, notified, term,
                   old_settings, ch, exc, clock, sent, switched, alerts_section,
                   prev_attention, notified_before, isatty, input>>

\* Line 285: the process snapshot, whatever ps answers at this moment.
ScanGetProcessList ==
    /\ pc = "get_process_list"
    /\ \E p \in PsOutputs :
          output' = Some([output[1] EXCEPT !.ps_output = p, !.ps_calls = @ + 1])
    /\ pc' = ScanLoopNext(input[1].k, Len(DirNames(input[1].listing)))
    /\ UNCHANGED <<in_tmux, no_notifications, args_stale_minutes, tasks, notified, term,
                   old_settings, ch, exc, clock, sent, switched, alerts_section,
                   prev_attention, notified_before, isatty, input>>

\* Lines 286-294 for the next directory entry: skipped (lines 287-291), or
\* parsed, classified against the captured snapshots, and appended.
ScanFile ==
    /\ pc = "scan_files"
    /\ LET listing == input[1].listing
           names == DirNames(listing)
           fname == names[input[1].k + 1]
       IN  /\ tasks' =
                  IF EndsWith(fname, ".wiki") /\ listing[fname].kind \in {"unreadable", "text"}
                  THEN Append(tasks,
                           classify_alerts(
                               parse_wiki_file(wip_dir \o "/" \o fname,
                                               ContentOf(listing[fname]), Nows[clock]),
                               args_stale_minutes, output[1].tmux_windows,
                               output[1].ps_output, Nows[clock]))
                  ELSE tasks
           /\ input' = Some([input[1] EXCEPT !.k = @ + 1])
           /\ pc' = ScanLoopNext(input[1].k + 1, Len(names))
    /\ UNCHANGED <<in_tmux, no_notifications, args_stale_minutes, notified, term,
                   old_settings, ch, exc, clock, sent, switched, alerts_section,
                   prev_attention, notified_before, isatty, output>>

ScanNext ==
    \/ ScanIsDir
    \/ ScanGetTmuxWindows
    \/ ScanGetProcessList
    \/ ScanFile

ScanSpec == ScanInit /\ [][ScanNext]_vars

\* ------------------------------------------------------------------------
\* The external calls of one refresh cycle: tmux list-windows, ps,
\* osascript, tmux select-window, each through subprocess.run
\* ------------------------------------------------------------------------

\* What an external tool can be when it is run: it answers and exits with 0,
\* it exits with another status, it is not on the PATH, it does not answer
\* within the timeout, it is found but may not be executed, or it answers
\* with bytes that are not text in the locale's encoding.
ToolConditions == {"ok", "fails", "missing", "hangs", "not_executable", "undecodable"}

\* subprocess.run(cmd, capture_output=True, timeout=5) and, for the two
\* probes, text=True: the return code, or the exception raised.
subprocess_run(condition, text) ==
    CASE condition = "ok" -> "returncode 0"
      [] condition = "fails" -> "returncode 1"
      [] condition = "missing" -> "FileNotFoundError"
      [] condition = "hangs" -> "TimeoutExpired"
      [] condition = "not_executable" -> "PermissionError"
      [] condition = "undecodable" -> IF text THEN "UnicodeDecodeError" ELSE "returncode 0"

\* The exceptions every wrapper catches.
Caught == {"FileNotFoundError", "TimeoutExpired"}

\* What leaves a wrapper whose call ended as r: the exception, if any.
Raised(r) == IF r \in {"returncode 0", "returncode 1"} \cup Caught THEN None ELSE Some(r)

\* get_tmux_windows(): the window list, [] after a failure.
get_tmux_windows(condition) ==
    LET r == subprocess_run(condition, TRUE)
    IN  [raised |-> Raised(r),
         value |-> IF r = "returncode 0" THEN <<"dev:1">> ELSE <<>>]

\* get_process_list(): the snapshot, "" after a failure.
get_process_list(condition) ==
    LET r == subprocess_run(condition, TRUE)
    IN  [raised |-> Raised(r),
         value |-> IF r = "returncode 0" THEN "  101 claude /v/wip/a.wiki\n" ELSE ""]

\* send_notification(...): returns None.
send_notification(condition) ==
    [raised |-> Raised(subprocess_run(condition, FALSE)), value |-> None]

\* switch_tmux_window("1", windows): no call when no entry ends with ":1".
select_window(condition, windows) ==
    LET r == subprocess_run(condition, FALSE)
    IN  IF windows = <<>> THEN [raised |-> None, value |-> FALSE, ran |-> 0]
        ELSE [raised |-> Raised(r), value |-> r \notin Caught, ran |-> 1]

\* A cycle begins at line 319 with each tool in some condition; runs counts
\* the subprocess.run calls of the cycle, pending the notifications still to
\* deliver.
CallInit ==
    /\ pc = "scan"
    /\ clock = 1
    /\ args_stale_minutes = DefaultStaleMinutes
    /\ tasks = <<>>
    /\ in_tmux = TRUE
    /\ no_notifications = FALSE
    /\ notified = {}
    /\ term = "cbreak"
    /\ old_settings = Some("cooked")
    /\ ch = None
    /\ exc = FALSE
    /\ sent = <<>>
    /\ switched = None
    /\ alerts_section = <<>>
    /\ prev_attention = {}
    /\ notified_before = {}
    /\ isatty = TRUE
    /\ input \in {Some([tmux |-> a, ps |-> b, osascript |-> c]) :
                     a \in ToolConditions, b \in ToolConditions, c \in ToolConditions}
    /\ output = Some([tmux_windows |-> <<>>, ps_output |-> "", pending |-> 0, runs |-> 0])

\* Line 284.
CallGetTmuxWindows ==
    /\ pc = "scan"
    /\ LET r == get_tmux_windows(input[1].tmux)
       IN  /\ output' = Some([output[1] EXCEPT !.tmux_windows = r.value, !.runs = 1])
           /\ exc' = (r.raised # None)
           /\ pc' = IF r.raised # None THEN "finally" ELSE "get_process_list"
    /\ UNCHANGED <<in_tmux, no_notifications, args_stale_minutes, tasks, notified, term,
                   old_settings, ch, clock, sent, switched, alerts_section, prev_attention,
                   notified_before, isatty, input>>

\* Line 285, the loop of lines 286-294, and the alerts of the cycle: up to
\* two of them are new.
CallGetProcessList ==
    /\ pc = "get_process_list"
    /\ LET r == get_process_list(input[1].ps)
       IN  /\ \E n \in 0..2 :
                  output' = Some([output[1] EXCEPT !.ps_output = r.value, !.runs = @ + 1,
                                                  !.pending = IF r.raised = None THEN n ELSE 0])
           /\ exc' = (r.raised # None)
           /\ pc' = IF r.raised # None THEN "finally" ELSE "notify"
    /\ UNCHANGED <<in_tmux, no_notifications, args_stale_minutes, tasks, notified, term,
                   old_settings, ch, clock, sent, switched, alerts_section, prev_attention,
                   notified_before, isatty, input>>

\* Line 328 for the next new alert.
CallSendNotification ==
    /\ pc = "notify"
    /\ output[1].pending > 0
    /\ LET r == send_notification(input[1].osascript)
       IN  /\ output' = Some([output[1] EXCEPT !.pending = @ - 1, !.runs = @ + 1])
           /\ exc' = (r.raised # None)
           /\ pc' = IF r.raised # None THEN "finally" ELSE "notify"
    /\ UNCHANGED <<in_tmux, no_notifications, args_stale_minutes, tasks, notified, term,
                   old_settings, ch, clock, sent, switched, alerts_section, prev_attention,
                   notified_before, isatty, input>>

\* Lines 330-332: the loops are over, the dashboard is rendered, select
\* is entered.
CallRender ==
    /\ pc = "notify"
    /\ output[1].pending = 0
    /\ pc' = "wait"
    /\ UNCHANGED <<in_tmux, no_notifications, args_stale_minutes, tasks, notified, term,
                   old_settings, ch, exc, clock, sent, switched, alerts_section,
                   prev_attention, notified_before, isatty, input, output>>

\* Lines 332-338: the interval passes, or a key that starts the next cycle.
CallNextCycle ==
    /\ pc = "wait"
    /\ pc' = "scan"
    /\ ch' = None
    /\ output' = Some([tmux_windows |-> <<>>, ps_output |-> "", pending |-> 0, runs |-> 0])
    /\ UNCHANGED <<in_tmux, no_notifications, args_stale_minutes, tasks, notified, term,
                   old_settings, exc, clock, sent, switched, alerts_section,
                   prev_attention, notified_before, isatty, input>>

\* Lines 339-342: the digit of a task with a window; the window list is
\* fetched again.
CallSwitchList ==
    /\ pc = "wait"
    /\ ch' = Some("1")
    /\ LET r == get_tmux_windows(input[1].tmux)
       IN  /\ output' = Some([output[1] EXCEPT !.tmux_windows = r.value, !.runs = @ + 1])
           /\ exc' = (r.raised # None)
           /\ pc' = IF r.raised # None THEN "finally" ELSE "switch"
    /\ UNCHANGED <<in_tmux, no_notifications, args_stale_minutes, tasks, notified, term,
                   old_settings, clock, sent, switched, alerts_section, prev_attention,
                   notified_before, isatty, input>>

\* Line 343.
CallSelectWindow ==
    /\ pc = "switch"
    /\ LET r == select_window(input[1].tmux, output[1].tmux_windows)
       IN  /\ output' = Some([output[1] EXCEPT !.runs = @ + r.ran])
           /\ exc' = (r.raised # None)
           /\ switched' = Some(r.value)
           /\ pc' = IF r.raised # None THEN "finally" ELSE "switched"
    /\ UNCHANGED <<in_tmux, no_notifications, args_stale_minutes, tasks, notified, term,
                   old_settings, ch, clock, sent, alerts_section, prev_attention,
                   notified_before, isatty, input>>

\* The body of the loop has ended; line 319 again.
CallLoop ==
    /\ pc = "switched"
    /\ pc' = "scan"
    /\ ch' = None
    /\ switched' = None
    /\ output' = Some([tmux_windows |-> <<>>, ps_output |-> "", pending |-> 0, runs |-> 0])
    /\ UNCHANGED <<in_tmux, no_notifications, args_stale_minutes, tasks, notified, term,
                   old_settings, exc, clock, sent, alerts_section, prev_attention,
                   notified_before, isatty, input>>

\* Lines 335-336.
CallQuit ==
    /\ pc = "wait"
    /\ ch' = Some("q")
    /\ pc' = "finally"
    /\ UNCHANGED <<in_tmux, no_notifications, args_stale_minutes, tasks, notified, term,
                   old_settings, exc, clock, sent, switched, alerts_section,
                   prev_attention, notified_before, isatty, input, output>>

\* Lines 346-351, then the interpreter exits (with the traceback of the
\* exception, if one is in flight).
CallFinally ==
    /\ pc = "finally"
    /\ term' = "cooked"
    /\ pc' = "exited"
    /\ UNCHANGED <<in_tmux, no_notifications, args_stale_minutes, tasks, notified,
                   old_settings, ch, exc, clock, sent, switched, alerts_section,
                   prev_attention, notified_before, isatty, input, output>>

CallNext ==
    \/ CallGetTmuxWindows
    \/ CallGetProcessList
    \/ CallSendNotification
    \/ CallRender
    \/ CallNextCycle
    \/ CallSwitchList
    \/ CallSelectWindow
    \/ CallLoop
    \/ CallQuit
    \/ CallFinally

\* Every subprocess.run has timeout=5 and the loops between the calls are
\* finite: each step of a cycle is taken once it can be.  Nothing makes the
\* operator type, or the interval pass.
CallSpec ==
    /\ CallInit
    /\ [][CallNext]_vars
    /\ WF_vars(CallGetTmuxWindows)
    /\ WF_vars(CallGetProcessList)
    /\ WF_vars(CallSendNotification)
    /\ WF_vars(CallRender)
    /\ WF_vars(CallSelectWindow)
    /\ WF_vars(CallLoop)
    /\ WF_vars(CallFinally)

\* ------------------------------------------------------------------------
\* Properties of the classifier
\* ------------------------------------------------------------------------

PriorityOrder == <<"NEEDS ATTENTION", "NOT RUNNING", "STALE", "COMPLETED">>

\* The position in PriorityOrder of the kind a reason text starts with, 0
\* when it starts with none.
PriorityOf(r) ==
    IF \E i \in DOMAIN PriorityOrder : StartsWith(r, PriorityOrder[i])
    THEN CHOOSE i \in DOMAIN PriorityOrder : StartsWith(r, PriorityOrder[i])
    ELSE 0

HasReason(t, kind) ==
    \E j \in DOMAIN t.alert_reasons : PriorityOrder[PriorityOf(t.alert_reasons[j])] = kind

\* Every record of the task list has been through classify_alerts.
Classified == pc # "classify"

\* C7: the alert reasons of every classified record are a subsequence of
\* [NEEDS ATTENTION, NOT RUNNING, STALE, COMPLETED], each kind at most once:
\* every reason is of one of the four kinds and the kinds strictly ascend in
\* that order (so NEEDS ATTENTION is first and COMPLETED is last when present).
C7_AlertsInPriorityOrder ==
    Classified =>
        \A i \in DOMAIN tasks :
            LET rs == tasks[i].alert_reasons
            IN  /\ \A j \in DOMAIN rs : PriorityOf(rs[j]) # 0
                /\ \A j, k \in DOMAIN rs : j < k => PriorityOf(rs[j]) < PriorityOf(rs[k])

\* A record that is blocked, stale and completed: three alerts at once.
C7_Witness ==
    /\ pc = "classified"
    /\ Len(tasks[1].alert_reasons) = 3
    /\ HasReason(tasks[1], "NEEDS ATTENTION")
    /\ HasReason(tasks[1], "STALE")
    /\ tasks[1].alert_reasons[3] = "COMPLETED"

CompletionKeywords == {"done", "complete", "finished"}

HasCompletionKeyword(status) ==
    \E w \in CompletionKeywords : Contains(Lower(status), w)

InReasons(t, r) == \E j \in DOMAIN t.alert_reasons : t.alert_reasons[j] = r

\* C8: "NOT RUNNING" is among the alert reasons exactly when the record has
\* no active process and is not completed; a record whose status contains a
\* completion keyword and that has no matching process has no NOT RUNNING
\* alert and has the COMPLETED alert.
C8_NotRunningIffIdleAndOpen ==
    Classified =>
        \A i \in DOMAIN tasks :
            LET t == tasks[i]
            IN  /\ InReasons(t, "NOT RUNNING") <=> (~t.has_active_process /\ ~t.is_completed)
                /\ (HasCompletionKeyword(t.status) /\ ~t.has_active_process)
                       => (~InReasons(t, "NOT RUNNING") /\ InReasons(t, "COMPLETED"))

\* A finished task whose process is gone.
C8_Witness ==
    /\ pc = "classified"
    /\ HasCompletionKeyword(tasks[1].status)
    /\ ~tasks[1].has_active_process
    /\ InReasons(tasks[1], "COMPLETED")

BlockedKeywords ==
    {"waiting for", "waiting on", "blocked", "needs review", "paused", "stuck"}

HookTokens == {"permissionrequest", "posttoolusefailure", "stop", "sessionend"}

\* C9: is_blocked holds exactly when the lower-cased status contains a
\* blocked keyword or equals a hook token; "stopped" and the sentinel "?"
\* are not blocked; a blocked record's first alert is NEEDS ATTENTION; a
\* record with the sentinel status and no timestamp has no alert but,
\* possibly, NOT RUNNING.
C9_BlockedIffKeywordOrHookToken ==
    Classified =>
        \A i \in DOMAIN tasks :
            LET t == tasks[i]
                low == Lower(t.status)
            IN  /\ t.is_blocked <=>
                       ((\E w \in BlockedKeywords : Contains(low, w)) \/ low \in HookTokens)
                /\ t.status \in {"stopped", "?"} => ~t.is_blocked
                /\ t.is_blocked =>
                       /\ t.alert_reasons # <<>>
                       /\ StartsWith(t.alert_reasons[1], "NEEDS ATTENTION")
                /\ (t.status = "?" /\ t.last_updated = None) =>
                       \A j \in DOMAIN t.alert_reasons : t.alert_reasons[j] = "NOT RUNNING"

\* A status that contains a hook token without being one.
C9_Witness ==
    /\ pc = "classified"
    /\ tasks[1].status = "stopped"
    /\ ~tasks[1].is_blocked
    /\ ~HasReason(tasks[1], "NEEDS ATTENTION")

\* The age of a timestamp at the instant of classification is strictly
\* greater than the threshold, in whole seconds and microseconds.
StrictlyOlder(lu, now, minutes) ==
    LET secs == Seconds(now) - Seconds(lu)
    IN  secs > minutes * 60 \/ (secs = minutes * 60 /\ now.micro > lu.micro)

\* C10: is_stale holds exactly when last_updated is present and its age at
\* classification time is strictly greater than the threshold; the STALE
\* alert is present exactly when is_stale holds; a record without
\* last_updated is not stale and has no STALE alert.
C10_StaleIffPresentAndOlder ==
    Classified =>
        \A i \in DOMAIN tasks :
            LET t == tasks[i]
            IN  /\ t.is_stale <=>
                       /\ t.last_updated # None
                       /\ StrictlyOlder(t.last_updated[1], Nows[clock], args_stale_minutes)
                /\ HasReason(t, "STALE") <=> t.is_stale
                /\ t.last_updated = None => (~t.is_stale /\ ~HasReason(t, "STALE"))

\* A record exactly as old as the threshold is not stale.
C10_Witness ==
    /\ pc = "classified"
    /\ tasks[1].last_updated # None
    /\ Seconds(Nows[clock]) - Seconds(tasks[1].last_updated[1]) = args_stale_minutes * 60
    /\ Nows[clock].micro = 0
    /\ ~tasks[1].is_stale
    /\ ~HasReason(tasks[1], "STALE")

\* ------------------------------------------------------------------------
\* Properties of the refresh loop
\* ------------------------------------------------------------------------

\* The number of send_notification calls of the cycle in progress for a key.
SentFor(k) == Cardinality({i \in DOMAIN sent : sent[i].key = k})

\* Lines 321-330 have run in the cycle in progress, with notifications on.
Reconciled == ~no_notifications /\ pc \in {"render", "wait"}

\* C1: with notifications enabled, an attention-class (path, kind) key that
\* is present in consecutive cycles is notified in the first of them only:
\* a key present in this cycle gets no send_notification call when it was
\* present in the previous cycle, and exactly one call when it was not.
C1_NotifiedInFirstCycleOnly ==
    Reconciled =>
        \A k \in AttentionKeys(tasks) :
            SentFor(k) = IF k \in prev_attention THEN 0 ELSE 1

\* The second cycle of a run: the key was notified in an earlier cycle, was
\* present in the previous one, is present in this one and is not notified.
C1_Witness ==
    /\ Reconciled
    /\ \E k \in AttentionKeys(tasks) \cap prev_attention :
           /\ k \in notified_before
           /\ k \in notified
           /\ SentFor(k) = 0

\* C2: with notifications enabled, an attention-class key that was notified
\* in an earlier cycle, was absent from the alerts of the cycle before this
\* one and is present in this one is notified again in this cycle, and is
\* back in the seen set.
C2_NotifiedAgainWhenBack ==
    Reconciled =>
        \A k \in (AttentionKeys(tasks) \cap notified_before) \ prev_attention :
            /\ \E i \in DOMAIN sent : sent[i].key = k
            /\ k \in notified

\* A key notified earlier, gone for a cycle, here again and notified again.
C2_Witness ==
    /\ Reconciled
    /\ \E k \in (AttentionKeys(tasks) \cap notified_before) \ prev_attention :
           \E i \in DOMAIN sent : sent[i].key = k

\* C3: send_notification is only called for a reason of kind NEEDS ATTENTION
\* or NOT RUNNING, and only keys of these two kinds enter the seen set: a
\* STALE or a COMPLETED reason never notifies, whatever the status text.
C3_OnlyAttentionKindsNotify ==
    /\ \A i \in DOMAIN sent :
           /\ sent[i].key[2] \in AttentionKinds
           /\ PriorityOrder[PriorityOf(sent[i].message)] \in AttentionKinds
    /\ \A k \in notified : k[2] \in AttentionKinds

\* A stale, completed task whose status text contains "NOT RUNNING": nothing
\* is sent for it and no key of it is in the seen set.
C3_Witness ==
    /\ Reconciled
    /\ \E i \in DOMAIN tasks :
           /\ Contains(tasks[i].status, "NOT RUNNING")
           /\ HasReason(tasks[i], "STALE")
           /\ InReasons(tasks[i], "COMPLETED")
           /\ \A j \in DOMAIN sent : sent[j].key[1] # tasks[i].filepath
           /\ \A k \in notified : k[1] # tasks[i].filepath

\* C4: after a key other than "q" or "r" is read, the loop is waiting again
\* (or is on its way out): it does not rescan, reconcile or render before a
\* timeout or an "r".  The code does: see the record of C4.
C4_OtherKeyResumesWaiting ==
    (ch # None /\ ch[1] \notin {"q", "r"}) => pc \notin {"scan", "notify", "render"}

\* C5: once the terminal is in cbreak mode, every terminated state has the
\* terminal back in the mode it had before.  SIGTERM breaks it: see the
\* record of C5.
C5_TerminalRestoredOnEveryExit ==
    (pc \in {"exited", "killed"} /\ old_settings # None) => term = old_settings[1]

Leaving == {"finally", "exited", "killed"}

\* C6: from the wait, the interval elapsing with no key leads to the scan;
\* "q" leads out of the loop, after which nothing is scanned, notified or
\* rendered; "r" leads to the scan at once, with nothing else in between.
C6_WaitingStep ==
    /\ [][(pc = "wait" /\ pc' # "killed") =>
              /\ ch' = Some("q") => pc' = "finally"
              /\ ch' = Some("r") => pc' = "scan"
              /\ ch' = None => pc' \in {"scan", "finally"}]_vars
    /\ [][ch = Some("q") =>
              /\ pc' \in Leaving
              /\ UNCHANGED <<tasks, notified, sent, alerts_section, clock>>]_vars
    /\ [](ch = Some("q") => pc \in Leaving)

\* "r" was read and line 319 is next.
C6_Witness ==
    /\ pc = "scan"
    /\ ch = Some("r")
    /\ alerts_section = <<>>
    /\ tasks # <<>>

\* The value Unicode gives a digit character (what the key stands for).
DigitOf(c) ==
    IF IsDigit(c) THEN ParseInt(c)
    ELSE CHOOSE v \in 1..3 : <<c, v>> \in {<<"¹", 1>>, <<"²", 2>>, <<"³", 3>>}

\* The digit selects nothing to switch to, as far as the program's own state
\* tells: outside tmux, out of range, or a task with no window bound.
SelectsNothing(c) ==
    \/ ~in_tmux
    \/ DigitOf(c) - 1 \notin 0..(Len(tasks) - 1)
    \/ tasks[DigitOf(c)].tmux_window \in {None, Some("")}

\* C11: a digit key that selects nothing is a no-op: no select-window
\* command is issued and no exception is raised.  The code raises: see the
\* record of C11.
C11_DigitKeyIsNoOp ==
    (ch # None /\ isdigit(ch[1]) /\ SelectsNothing(ch[1])) => (~exc /\ switched = None)

\* C14: when no interactive terminal is available the program exits before
\* the loop: it never scans, notifies or renders, establishes no seen set
\* and leaves the terminal mode alone.
C14_NoTerminalNoLoop ==
    ~isatty =>
        /\ pc \in {"start", "exited"}
        /\ tasks = <<>> /\ notified = {} /\ sent = <<>> /\ alerts_section = <<>>
        /\ term = "cooked" /\ old_settings = None
        /\ ch = None /\ ~exc

\* The run without a terminal has ended.
C14_Witness == ~isatty /\ pc = "exited" /\ term = "cooked"

\* C20: with notifications enabled the seen set is, after the reconciliation
\* step of every cycle, exactly the set of keys of the attention-class alerts
\* of that cycle (so it holds no STALE or COMPLETED key and no key of a file
\* that is not in the task list); with notifications disabled it stays empty
\* and nothing is sent.
C20_SeenSetIsCurrentAttention ==
    /\ Reconciled =>
           /\ notified = AttentionKeys(tasks)
           /\ \A k \in notified :
                  /\ k[2] \in AttentionKinds
                  /\ \E i \in DOMAIN tasks : tasks[i].filepath = k[1]
    /\ no_notifications => (notified = {} /\ sent = <<>> /\ notified_before = {})

\* A file alerted on in the previous cycle is gone from this one, whose
\* tasks have a stale alert besides the attention-class ones.
C20_Witness ==
    /\ Reconciled
    /\ notified # {}
    /\ \E k \in prev_attention : \A i \in DOMAIN tasks : tasks[i].filepath # k[1]
    /\ \E i \in DOMAIN tasks : HasReason(tasks[i], "STALE")

\* The (display position, reason) pairs of the alerts that are not the
\* COMPLETED alert.
OpenAlerts ==
    {p \in UNION {{<<i, tasks[i].alert_reasons[j]>> : j \in DOMAIN tasks[i].alert_reasons} :
                     i \in DOMAIN tasks} : p[2] # "COMPLETED"}

\* C18: the alerts section lists one entry (i, reason) for every alert that
\* is not the COMPLETED alert, and none for a COMPLETED alert, whatever the
\* status text.  The code drops more: every reason whose text holds
\* the word COMPLETED.
C18_AlertsSectionListsOpenAlerts ==
    pc = "rendered" =>
        /\ {<<alerts_section[n].idx, alerts_section[n].reason>> : n \in DOMAIN alerts_section}
               = OpenAlerts
        /\ Len(alerts_section) = Cardinality(OpenAlerts)

\* C19: has_active_process holds exactly when some line of the process
\* snapshot whose first field is not the monitor's own process id contains
\* the task's path and, in any letter case, "claude"; a snapshot in which
\* only the monitor's own line names the path gives FALSE.
C19_ActiveIffForeignAgentLine ==
    pc = "classified" =>
        LET t == tasks[1]
            lines == SplitLines(input[1].ps_output)
        IN  t.has_active_process <=>
                \E n \in DOMAIN lines :
                    /\ Fields(lines[n]) # <<>>
                    /\ Fields(lines[n])[1] # "77"
                    /\ Contains(Lower(lines[n]), "claude")
                    /\ Contains(lines[n], t.filepath)

\* Only the monitor's own line names the task file.
C19_Witness ==
    /\ pc = "classified"
    /\ input[1].ps_output = "   77 python3 claude_manager.py /v/wip/a.wiki\n"
    /\ ~tasks[1].has_active_process
    /\ InReasons(tasks[1], "NOT RUNNING")

\* ------------------------------------------------------------------------
\* Properties of the parsers
\* ------------------------------------------------------------------------

\* A line made of an optional leading "- ", a bracket holding one of the
\* markers, and a closing bracket.
MarkedLine(line, markers) ==
    LET body == IF StartsWith(line, "- ") THEN From(line, 3) ELSE line
    IN  /\ Len(body) >= 3
        /\ CharAt(body, 1) = "["
        /\ CharAt(body, 2) \in markers
        /\ CharAt(body, 3) = "]"

ParsedLines == input[1].lines

\* C15: progress_total counts every line made of an optional leading "- "
\* and a bracket holding one of x, X, o, O, space; progress_done counts those
\* of them whose marker is x or X.  The code counts only the lines that
\* carry the dash.
C15_ChecklistCountsOptionalDash ==
    pc = "parsed" =>
        /\ tasks[1].progress_total =
               Cardinality({i \in DOMAIN ParsedLines :
                               MarkedLine(ParsedLines[i], {"x", "X", "o", "O", " "})})
        /\ tasks[1].progress_done =
               Cardinality({i \in DOMAIN ParsedLines : MarkedLine(ParsedLines[i], {"x", "X"})})

\* C16: every record parse_wiki_file produces, from a readable or an
\* unreadable file, has 0 <= progress_done <= progress_total, and a file
\* without checklist lines gives 0 and 0.
C16_ProgressWithinTotal ==
    /\ pc \in {"parsed", "unreadable"} =>
           /\ 0 <= tasks[1].progress_done
           /\ tasks[1].progress_done <= tasks[1].progress_total
    /\ pc = "unreadable" => tasks[1].progress_total = 0 /\ tasks[1].progress_done = 0
    /\ (/\ pc = "parsed"
        /\ \A i \in DOMAIN ParsedLines :
               ~MarkedLine(ParsedLines[i], {"x", "X", "o", "O", " "}))
           => tasks[1].progress_total = 0 /\ tasks[1].progress_done = 0

\* A file with one done and one open item.
C16_Witness ==
    /\ pc = "parsed"
    /\ ParsedLines = <<"- [x] a", "- [ ] c">>
    /\ tasks[1].progress_done = 1
    /\ tasks[1].progress_total = 2

\* The date-time a timestamp drawn denotes in year y.
StampIn(y) ==
    DateTime(y, input[1].month, input[1].day, input[1].hour, input[1].minute,
             input[1].second, 0)

\* a is strictly later than b, field by field.
Later(a, b) ==
    LET ka == <<a.year, a.month, a.day, a.hour, a.minute, a.second, a.micro>>
        kb == <<b.year, b.month, b.day, b.hour, b.minute, b.second, b.micro>>
    IN  \E i \in 1..7 : ka[i] > kb[i] /\ \A j \in 1..(i - 1) : ka[j] = kb[j]

\* C17: an accepted timestamp without a year has the month, day and time
\* written and the year of now, unless that date-time is strictly after
\* now: then the year before; so it is never after now.  An accepted
\* timestamp with a 4-digit year keeps the year written.
C17_YearInferredNeverFuture ==
    (pc = "stamped" /\ output # None) =>
        LET now == input[1].now
        IN  IF input[1].year = 0
            THEN /\ output[1] =
                        IF Later(StampIn(now.year), now) THEN StampIn(now.year - 1)
                        ELSE StampIn(now.year)
                 /\ ~Later(output[1], now)
            ELSE output[1] = StampIn(input[1].year)

\* A timestamp without a year that would lie after now is moved back a year.
C17_Witness ==
    /\ pc = "stamped"
    /\ input[1].year = 0
    /\ input[1].month = 12
    /\ output # None
    /\ output[1].year = input[1].now.year - 1

\* ------------------------------------------------------------------------
\* Properties of the scan
\* ------------------------------------------------------------------------

\* The record scan_tasks makes of entry n under a pair of snapshots.
RecordOf(n, windows, snapshot) ==
    classify_alerts(
        parse_wiki_file(wip_dir \o "/" \o n, ContentOf(input[1].listing[n]), Nows[clock]),
        args_stale_minutes, windows, snapshot, Nows[clock])

\* C12: in a scan of any number of files the session-list probe and the
\* process-snapshot probe are each invoked at most once, both before the
\* first record is classified, and every record of the scan is classified
\* against that one pair of snapshots.
C12_ProbesOncePerScan ==
    /\ output[1].tmux_calls <= 1
    /\ output[1].ps_calls <= 1
    /\ tasks # <<>> => output[1].tmux_calls = 1 /\ output[1].ps_calls = 1
    /\ \A i \in DOMAIN tasks :
           \E n \in EntryNames :
               tasks[i] = RecordOf(n, output[1].tmux_windows, output[1].ps_output)

\* A scan of two task files has returned after one probe of each kind.
C12_Witness ==
    /\ pc = "scan_return"
    /\ Len(tasks) = 2
    /\ output[1].tmux_calls = 1
    /\ output[1].ps_calls = 1
    /\ output[1].tmux_windows # <<>>
    /\ output[1].ps_output # ""

\* ------------------------------------------------------------------------
\* Properties of the external calls
\* ------------------------------------------------------------------------

\* C13: every cycle that starts reaches the wait of line 332: a tool that
\* hangs or is missing gives the call's empty or false value, no call is
\* made again, and no failure of an external call leaves the loop as an
\* exception.  The wrappers let every exception but two through.
C13_CycleReachesWaiting ==
    /\ [](pc \in {"finally", "exited"} => ~exc)
    /\ [](pc \in {"get_process_list", "notify", "wait"} => output[1].runs <= 4)
    /\ (pc = "scan") ~> (pc = "wait")

====
